---- MODULE Spec2Model ----
(***************************************************************************)
(* Model of the indicator engine of toolbox (src/src/indicators.ts) and of *)
(* the numeric helpers of src/src/utils.ts.                                *)
(*                                                                         *)
(* Numbers.  A JavaScript number is modelled as a pair <<n, d>>:           *)
(*   d > 0   the rational n/d in lowest terms (exact arithmetic; the       *)
(*           rounding of IEEE doubles is not modelled),                    *)
(*   d = 0   the special values of IEEE arithmetic: <<0,0>> is NaN,        *)
(*           <<1,0>> is +Infinity and <<-1,0>> is -Infinity.               *)
(* null / undefined is the empty tuple.  Zero is unsigned: every divisor   *)
(* that can be zero in the modelled code is a sum of absolute values or a  *)
(* product of non-negative numbers, hence +0.                              *)
(*                                                                         *)
(* Arrays are sequences; At(s, i) reads the 0-based index i of the source. *)
(***************************************************************************)
EXTENDS Integers, Sequences, FiniteSets

\* ------------------------------------------------------------ bounds
\* Largest value of a price in a number series passed to RSI / EMA / MACD.
MaxPrice == 3
\* Longest number series.
MaxLen == 4
\* Largest lookback period of a direct call.
MaxPeriod == 3
\* Price levels (ticks) of a candle.
MaxTick == 2
\* Largest volume of a candle.
MaxVolume == 1
\* Longest candle batch.
MaxKlines == 3
\* Largest magnitude of an argument of normalize / unnormalize.
MaxValue == 2
\* Largest period of a configuration of calculateIndicators.
MaxParam == 2

\* ------------------------------------------------------------ numbers
Null == <<>>
NaN == <<0, 0>>
PosInf == <<1, 0>>
NegInf == <<-1, 0>>

Abs(x) == IF x < 0 THEN -x ELSE x
Sign(x) == IF x < 0 THEN -1 ELSE IF x > 0 THEN 1 ELSE 0

RECURSIVE GCD(_, _)
GCD(a, b) == IF b = 0 THEN a ELSE GCD(b, a % b)

\* n/d in lowest terms with a positive denominator (d # 0).
Norm(n, d) ==
    LET g == GCD(Abs(n), Abs(d))
        s == IF d < 0 THEN -1 ELSE 1
    IN  <<s * (n \div g), Abs(d) \div g>>

Num(n) == <<n, 1>>
IsNull(a) == a = Null
IsNaN(a) == a = NaN
IsFinite(a) == Len(a) = 2 /\ a[2] > 0
IsZero(a) == IsFinite(a) /\ a[1] = 0

\* unary minus
FNeg(a) == <<-a[1], a[2]>>

\* a + b
FAdd(a, b) ==
    IF IsNaN(a) \/ IsNaN(b) THEN NaN
    ELSE IF ~IsFinite(a) /\ ~IsFinite(b) THEN (IF a = b THEN a ELSE NaN)
    ELSE IF ~IsFinite(a) THEN a
    ELSE IF ~IsFinite(b) THEN b
    ELSE LET g == GCD(a[2], b[2])
         IN  Norm(a[1] * (b[2] \div g) + b[1] * (a[2] \div g), (a[2] \div g) * b[2])

\* a - b
FSub(a, b) == FAdd(a, FNeg(b))

\* a * b
FMul(a, b) ==
    IF IsNaN(a) \/ IsNaN(b) THEN NaN
    ELSE IF ~IsFinite(a) \/ ~IsFinite(b)
         THEN (IF a[1] = 0 \/ b[1] = 0 THEN NaN ELSE <<Sign(a[1]) * Sign(b[1]), 0>>)
    ELSE LET g1 == GCD(Abs(a[1]), b[2])
             g2 == GCD(Abs(b[1]), a[2])
         IN  Norm((a[1] \div g1) * (b[1] \div g2), (a[2] \div g2) * (b[2] \div g1))

\* a / b, with the IEEE results of a division by zero or by an infinity
FDiv(a, b) ==
    IF IsNaN(a) \/ IsNaN(b) THEN NaN
    ELSE IF ~IsFinite(a) /\ ~IsFinite(b) THEN NaN
    ELSE IF ~IsFinite(a) THEN <<a[1] * (IF b[1] < 0 THEN -1 ELSE 1), 0>>
    ELSE IF ~IsFinite(b) THEN Num(0)
    ELSE IF b[1] = 0 THEN (IF a[1] = 0 THEN NaN ELSE <<Sign(a[1]), 0>>)
    ELSE FMul(a, <<Sign(b[1]) * b[2], Abs(b[1])>>)

\* a < b (false when either is NaN)
FLt(a, b) ==
    IF IsNaN(a) \/ IsNaN(b) THEN FALSE
    ELSE IF ~IsFinite(a) /\ ~IsFinite(b) THEN a[1] < b[1]
    ELSE IF ~IsFinite(a) THEN a[1] < 0
    ELSE IF ~IsFinite(b) THEN b[1] > 0
    ELSE LET g == GCD(a[2], b[2])
         IN  a[1] * (b[2] \div g) < b[1] * (a[2] \div g)

\* a > b, a <= b
FGt(a, b) == FLt(b, a)
FLe(a, b) == ~IsNaN(a) /\ ~IsNaN(b) /\ ~FLt(b, a)

\* a === b on numbers (NaN equals nothing)
FEq(a, b) == ~IsNaN(a) /\ ~IsNaN(b) /\ a = b

\* Math.abs, Math.max, Math.min of two numbers
FAbs(a) == <<Abs(a[1]), a[2]>>
FMax(a, b) == IF IsNaN(a) \/ IsNaN(b) THEN NaN ELSE IF FLt(a, b) THEN b ELSE a
FMin(a, b) == IF IsNaN(a) \/ IsNaN(b) THEN NaN ELSE IF FLt(b, a) THEN b ELSE a

\* 0-based read of an array; an index out of range reads undefined
At(s, i) == IF i >= 0 /\ i < Len(s) THEN s[i + 1] ELSE Null

\* Math.max(...xs) and Math.min(...xs); the empty spread gives -Infinity / +Infinity
RECURSIVE MaxOf(_)
MaxOf(xs) == IF xs = <<>> THEN NegInf ELSE FMax(Head(xs), MaxOf(Tail(xs)))
RECURSIVE MinOf(_)
MinOf(xs) == IF xs = <<>> THEN PosInf ELSE FMin(Head(xs), MinOf(Tail(xs)))

\* xs.reduce((sum, val) => sum + val, 0)
RECURSIVE SumOf(_)
SumOf(xs) == IF xs = <<>> THEN Num(0) ELSE FAdd(SumOf(SubSeq(xs, 1, Len(xs) - 1)), xs[Len(xs)])

\* ------------------------------------------------------------ candles
\* A Kline, reduced to the fields the indicators read: open = k[1], high = k[2],
\* low = k[3], close = k[4], volume = k[5].  Number(k[j]) of a numeric field.
Open(k) == Num(k.open)
High(k) == Num(k.high)
Low(k) == Num(k.low)
Close(k) == Num(k.close)
Volume(k) == Num(k.volume)

\* s.push(x)
Push(s, x) == Append(s, x)
\* s.shift(): the array without its first element
Shift(s) == Tail(s)
\* Array(n).fill(null)
NullArray(n) == [j \in 1..n |-> Null]

\* ------------------------------------------------------------ calculateATR
\* tr of candle i (first loop of calculateATR)
TrueRange(ks, i) ==
    LET high == High(At(ks, i))
        low == Low(At(ks, i))
        closePrev == IF i > 0 THEN Close(At(ks, i - 1)) ELSE high
    IN  FMax(FMax(FSub(high, low), FAbs(FSub(high, closePrev))), FAbs(FSub(low, closePrev)))

TrueRanges(ks) == [j \in 1..Len(ks) |-> TrueRange(ks, j - 1)]

\* one iteration of the second loop of calculateATR; st = [sumTR, atr]
ATRBody(st, trsIn, p, i) ==
    IF i < p
    THEN [sumTR |-> FAdd(st.sumTR, At(trsIn, i)), atr |-> Push(st.atr, NaN)]
    ELSE IF i = p
    THEN LET s == FAdd(st.sumTR, At(trsIn, i))
         IN  [sumTR |-> s, atr |-> Push(st.atr, FDiv(s, Num(p)))]
    ELSE LET prevATR == st.atr[Len(st.atr)]
             currentATR == FDiv(FAdd(FMul(prevATR, Num(p - 1)), At(trsIn, i)), Num(p))
         IN  [sumTR |-> st.sumTR, atr |-> Push(st.atr, currentATR)]

RECURSIVE ATRLoop(_, _, _, _)
ATRLoop(st, trsIn, p, i) ==
    IF i < Len(trsIn) THEN ATRLoop(ATRBody(st, trsIn, p, i), trsIn, p, i + 1) ELSE st

CalculateATR(ks, p) == ATRLoop([sumTR |-> Num(0), atr |-> <<>>], TrueRanges(ks), p, 0).atr

\* ------------------------------------------------------------ calculateEMA
\* k = 2 / (period + 1)
EMAK(p) == FDiv(Num(2), Num(p + 1))

\* a loop body that weighs the new value by 1 - k and the previous average by k
EMABodySwapped(st, data, p, i) ==
    IF i = 0
    THEN [prev |-> st.prev, ema |-> Push(st.ema, st.prev)]
    ELSE LET nxt == FAdd(FMul(At(data, i), FSub(Num(1), EMAK(p))), FMul(st.prev, EMAK(p)))
         IN  [prev |-> nxt, ema |-> Push(st.ema, nxt)]

\* one iteration of the loop of calculateEMA; st = [prev, ema]
EMABody(st, data, p, i) ==
    IF i = 0
    THEN [prev |-> st.prev, ema |-> Push(st.ema, st.prev)]
    ELSE LET nxt == FAdd(FMul(At(data, i), EMAK(p)), FMul(st.prev, FSub(Num(1), EMAK(p))))
         IN  [prev |-> nxt, ema |-> Push(st.ema, nxt)]

RECURSIVE EMALoop(_, _, _, _)
EMALoop(st, data, p, i) ==
    IF i < Len(data) THEN EMALoop(EMABody(st, data, p, i), data, p, i + 1) ELSE st

CalculateEMA(data, p) == EMALoop([prev |-> At(data, 0), ema |-> <<>>], data, p, 0).ema

\* ------------------------------------------------------------ calculateRSI
\* the guard of calculateRSI: throws "Cannot calculate RSI"
RSIThrows(ps, p) == Len(ps) < p + 1

\* the first loop: totalGain and totalLoss after the iterations 1..i
RECURSIVE RSITotals(_, _)
RSITotals(ps, i) ==
    IF i < 1 THEN [totalGain |-> Num(0), totalLoss |-> Num(0)]
    ELSE LET t == RSITotals(ps, i - 1)
             change == FSub(At(ps, i), At(ps, i - 1))
         IN  IF FGt(change, Num(0))
             THEN [totalGain |-> FAdd(t.totalGain, change), totalLoss |-> t.totalLoss]
             ELSE IF FLt(change, Num(0))
             THEN [totalGain |-> t.totalGain, totalLoss |-> FAdd(t.totalLoss, FAbs(change))]
             ELSE t

\* 100 - 100 / (1 + gain / loss)
RSIValue(gain, loss) == FSub(Num(100), FDiv(Num(100), FAdd(Num(1), FDiv(gain, loss))))

\* the state before the second loop; st = [previousGain, previousLoss, rsi]
RSIStart(ps, p) ==
    LET t == RSITotals(ps, p)
        initialAverageGain == FDiv(t.totalGain, Num(p))
        initialAverageLoss == FDiv(t.totalLoss, Num(p))
    IN  [previousGain |-> initialAverageGain,
         previousLoss |-> initialAverageLoss,
         rsi |-> <<RSIValue(initialAverageGain, initialAverageLoss)>>]

\* RSIBody with the rising branch adding the change to the loss as well
RSIBodyLossOnRise(st, ps, p, i) ==
    LET change == FSub(At(ps, i), At(ps, i - 1))
        g == IF FGt(change, Num(0))
             THEN FDiv(FAdd(FMul(st.previousGain, Num(p - 1)), change), Num(p))
             ELSE IF FLt(change, Num(0))
             THEN FDiv(FMul(st.previousGain, Num(p - 1)), Num(p))
             ELSE st.previousGain
        l == IF FGt(change, Num(0))
             THEN FDiv(FAdd(FMul(st.previousLoss, Num(p - 1)), change), Num(p))
             ELSE IF FLt(change, Num(0))
             THEN FDiv(FAdd(FMul(st.previousLoss, Num(p - 1)), FAbs(change)), Num(p))
             ELSE st.previousLoss
    IN  [previousGain |-> g, previousLoss |-> l,
         rsi |-> Push(st.rsi, FSub(Num(100), FDiv(Num(100), FAdd(Num(1), FDiv(g, l)))))]

\* one iteration of the second loop of calculateRSI
RSIBody(st, ps, p, i) ==
    LET change == FSub(At(ps, i), At(ps, i - 1))
        g == IF FGt(change, Num(0))
             THEN FDiv(FAdd(FMul(st.previousGain, Num(p - 1)), change), Num(p))
             ELSE IF FLt(change, Num(0))
             THEN FDiv(FMul(st.previousGain, Num(p - 1)), Num(p))
             ELSE st.previousGain
        l == IF FGt(change, Num(0))
             THEN FDiv(FMul(st.previousLoss, Num(p - 1)), Num(p))
             ELSE IF FLt(change, Num(0))
             THEN FDiv(FAdd(FMul(st.previousLoss, Num(p - 1)), FAbs(change)), Num(p))
             ELSE st.previousLoss
    IN  [previousGain |-> g, previousLoss |-> l, rsi |-> Push(st.rsi, RSIValue(g, l))]

RECURSIVE RSILoop(_, _, _, _)
RSILoop(st, ps, p, i) ==
    IF i < Len(ps) THEN RSILoop(RSIBody(st, ps, p, i), ps, p, i + 1) ELSE st

\* the value returned when the guard does not throw
CalculateRSI(ps, p) == RSILoop(RSIStart(ps, p), ps, p, p + 1).rsi

\* ------------------------------------------------------------ calculateMACD
DefaultFastPeriod == 12
DefaultSlowPeriod == 26
DefaultSignalPeriod == 9

\* the first loop: macd[i]
MACDLine(emaFast, emaSlow, n) ==
    [j \in 1..n |->
        LET fast == At(emaFast, j - 1)
            slow == At(emaSlow, j - 1)
        IN  IF ~IsNull(fast) /\ ~IsNull(slow) THEN FSub(fast, slow) ELSE Null]

\* macd.map((v) => v ?? 0)
MACDCleaned(macdIn) == [j \in 1..Len(macdIn) |-> IF IsNull(macdIn[j]) THEN Num(0) ELSE macdIn[j]]

\* the second loop: signal[i] = signalLine[i] ?? null
MACDSignal(signalLineIn, n) == [j \in 1..n |-> At(signalLineIn, j - 1)]

\* MACDHistogram testing macd[i] && signal[i] instead of != null
MACDHistogramTruthy(macdIn, signalIn, n) ==
    [j \in 1..n |->
        IF ~IsNull(macdIn[j]) /\ ~IsZero(macdIn[j]) /\ ~IsNull(signalIn[j]) /\ ~IsZero(signalIn[j])
        THEN FSub(macdIn[j], signalIn[j]) ELSE Null]

\* the second loop: histogram[i]
MACDHistogram(macdIn, signalIn, n) ==
    [j \in 1..n |->
        IF ~IsNull(macdIn[j]) /\ ~IsNull(signalIn[j])
        THEN FSub(macdIn[j], signalIn[j]) ELSE Null]

CalculateMACD(ps, fastP, slowP, signalP) ==
    LET macdL == MACDLine(CalculateEMA(ps, fastP), CalculateEMA(ps, slowP), Len(ps))
        signalL == MACDSignal(CalculateEMA(MACDCleaned(macdL), signalP), Len(ps))
    IN  [macd |-> macdL, signal |-> signalL,
         histogram |-> MACDHistogram(macdL, signalL, Len(ps))]

\* ------------------------------------------------------------ normalize / unnormalize
Normalize(value, min, max) ==
    IF FEq(max, min) THEN Num(0)
    ELSE FSub(FMul(FDiv(FSub(value, min), FSub(max, min)), Num(2)), Num(1))

\* Unnormalize without the final "+ min"
UnnormalizeNoOffset(normalized, min, max) ==
    FMul(FDiv(FAdd(normalized, Num(1)), Num(2)), FSub(max, min))

Unnormalize(normalized, min, max) ==
    FAdd(FMul(FDiv(FAdd(normalized, Num(1)), Num(2)), FSub(max, min)), min)

\* ------------------------------------------------------------ calculateMFI
\* (high + low + close) / 3
TypicalPrice(k) == FDiv(FAdd(FAdd(High(k), Low(k)), Close(k)), Num(3))

\* one iteration of the loop of calculateMFI;
\* st = [mfi, positiveMoneyFlows, negativeMoneyFlows]
MFIBody(st, ks, p, i) ==
    LET typicalPrice == TypicalPrice(At(ks, i))
        previousTypicalPrice == TypicalPrice(At(ks, i - 1))
        moneyFlow == FMul(typicalPrice, Volume(At(ks, i)))
        pos == st.positiveMoneyFlows
        neg == st.negativeMoneyFlows
        pos2 == IF FGt(typicalPrice, previousTypicalPrice) THEN Push(pos, moneyFlow)
                ELSE IF Len(pos) >= p THEN Shift(pos) ELSE pos
        neg2 == IF FLt(typicalPrice, previousTypicalPrice) THEN Push(neg, moneyFlow)
                ELSE IF Len(neg) >= p THEN Shift(neg) ELSE neg
        periodPositiveMoneyFlow == SumOf(pos2)
        periodNegativeMoneyFlow == SumOf(neg2)
        value == IF ~FEq(periodNegativeMoneyFlow, Num(0))
                 THEN FSub(Num(100), FDiv(Num(100),
                          FAdd(Num(1), FDiv(periodPositiveMoneyFlow, periodNegativeMoneyFlow))))
                 ELSE Num(100)
    IN  [mfi |-> IF i >= p THEN [st.mfi EXCEPT ![i + 1] = value] ELSE st.mfi,
         positiveMoneyFlows |-> pos2,
         negativeMoneyFlows |-> neg2]

RECURSIVE MFILoop(_, _, _, _)
MFILoop(st, ks, p, i) ==
    IF i < Len(ks) THEN MFILoop(MFIBody(st, ks, p, i), ks, p, i + 1) ELSE st

\* the early return of calculateMFI
MFITooShort(ks, p) == Len(ks) < p

CalculateMFI(ks, p) ==
    IF MFITooShort(ks, p) THEN NullArray(Len(ks))
    ELSE MFILoop([mfi |-> NullArray(Len(ks)), positiveMoneyFlows |-> <<>>,
                  negativeMoneyFlows |-> <<>>], ks, p, 1).mfi

\* ------------------------------------------------------------ calculateIndicators
IntMax(a, b) == IF a >= b THEN a ELSE b

\* Math.max(ultraSlowEmaPeriod, fastEmaPeriod, slowEmaPeriod, superSlowEmaPeriod,
\*          fastRsiPeriod + 1, slowRsiPeriod + 1, mfiPeriod, atrPeriod)
MaxPeriodRequired(pm) ==
    IntMax(pm.ultraSlowEmaPeriod, IntMax(pm.fastEmaPeriod, IntMax(pm.slowEmaPeriod,
    IntMax(pm.superSlowEmaPeriod, IntMax(pm.fastRsiPeriod + 1, IntMax(pm.slowRsiPeriod + 1,
    IntMax(pm.mfiPeriod, pm.atrPeriod)))))))

\* IndicatorsThrows with < in place of <=
IndicatorsThrowsStrict(ks, pm) == Len(ks) < MaxPeriodRequired(pm)

\* the guard of calculateIndicators: throws "Not enough klines to compute indicators."
IndicatorsThrows(ks, pm) == Len(ks) <= MaxPeriodRequired(pm)

\* klines.map((k) => Number(k[j]))
ClosePrices(ks) == [j \in 1..Len(ks) |-> Close(ks[j])]
Volumes(ks) == [j \in 1..Len(ks) |-> Volume(ks[j])]
Lows(ks) == [j \in 1..Len(ks) |-> Low(ks[j])]
Highs(ks) == [j \in 1..Len(ks) |-> High(ks[j])]

\* xs.filter((v) => v !== null)
Valid(xs) == SelectSeq(xs, LAMBDA v : ~IsNull(v))
\* valid.length ? Math.min(...valid) : 0, and the same with Math.max
MinOrZero(xs) == IF Len(Valid(xs)) > 0 THEN MinOf(Valid(xs)) ELSE Num(0)
MaxOrZero(xs) == IF Len(Valid(xs)) > 0 THEN MaxOf(Valid(xs)) ELSE Num(0)

\* the locals of calculateIndicators before any of them is computed
IndEmpty ==
    [closePrices |-> <<>>, volumes |-> <<>>,
     ultraSlowEma |-> <<>>, superSlowEma |-> <<>>, slowEma |-> <<>>, fastEma |-> <<>>,
     slowRsi |-> <<>>, fastRsi |-> <<>>,
     macd |-> <<>>, signal |-> <<>>, histogram |-> <<>>, mfi |-> <<>>, atr |-> <<>>,
     minPrice |-> Null, maxPrice |-> Null, minVolume |-> Null, maxVolume |-> Null,
     minMACD |-> Null, maxMACD |-> Null, minSignal |-> Null, maxSignal |-> Null,
     minHistogram |-> Null, maxHistogram |-> Null]

\* the bounds (lines 250-265)
WithBounds(r, ks) ==
    [r EXCEPT !.minPrice = MinOf(Lows(ks)), !.maxPrice = MaxOf(Highs(ks)),
              !.minVolume = MinOf(r.volumes), !.maxVolume = MaxOf(r.volumes),
              !.minMACD = MinOrZero(r.macd), !.maxMACD = MaxOrZero(r.macd),
              !.minSignal = MinOrZero(r.signal), !.maxSignal = MaxOrZero(r.signal),
              !.minHistogram = MinOrZero(r.histogram), !.maxHistogram = MaxOrZero(r.histogram)]

\* ------------------------------------------------------------ normalizeIndicators
\* x != null ? normalize(x, lo, hi) : 0
NormalizeOrZero(x, lo, hi) == IF ~IsNull(x) THEN Normalize(x, lo, hi) ELSE Num(0)
\* x != null ? x / 100 : 0
PercentOrZero(x) == IF ~IsNull(x) THEN FDiv(x, Num(100)) ELSE Num(0)

\* the feature row of candle j (0-based), in the order of the returned array
FeatureRow(r, ks, j) ==
    LET kline == At(ks, j)
        normalizedVolume ==
            IF FEq(r.minVolume, r.maxVolume) THEN Num(0)
            ELSE FDiv(FSub(Volume(kline), r.minVolume), FSub(r.maxVolume, r.minVolume))
    IN  << Normalize(Open(kline), r.minPrice, r.maxPrice),
           Normalize(High(kline), r.minPrice, r.maxPrice),
           Normalize(Low(kline), r.minPrice, r.maxPrice),
           Normalize(Close(kline), r.minPrice, r.maxPrice),
           normalizedVolume,
           NormalizeOrZero(At(r.fastEma, j), r.minPrice, r.maxPrice),
           NormalizeOrZero(At(r.slowEma, j), r.minPrice, r.maxPrice),
           NormalizeOrZero(At(r.superSlowEma, j), r.minPrice, r.maxPrice),
           NormalizeOrZero(At(r.ultraSlowEma, j), r.minPrice, r.maxPrice),
           PercentOrZero(At(r.fastRsi, j)),
           PercentOrZero(At(r.slowRsi, j)),
           NormalizeOrZero(At(r.macd, j), r.minMACD, r.maxMACD),
           NormalizeOrZero(At(r.signal, j), r.minSignal, r.maxSignal),
           NormalizeOrZero(At(r.histogram, j), r.minHistogram, r.maxHistogram),
           PercentOrZero(At(r.mfi, j)),
           NormalizeOrZero(At(r.atr, j), r.minPrice, r.maxPrice) >>

NormalizeIndicators(r, ks) == [j \in 1..Len(ks) |-> FeatureRow(r, ks, j - 1)]

\* ------------------------------------------------------------ indexSinceCeiling
\* xs.slice(start): the elements from the 0-based index start on
Slice(xs, start) == SubSeq(xs, start + 1, Len(xs))

\* xs.indexOf(x): the first 0-based index whose element === x, or -1
IndexOf(xs, x) ==
    LET hits == {j \in 1..Len(xs) : FEq(xs[j], x)}
    IN  IF hits = {} THEN -1 ELSE (CHOOSE j \in hits : \A h \in hits : j <= h) - 1

\* series.slice(Math.max(0, series.length - windowSize))
TrailingWindow(xs, w) == Slice(xs, IntMax(0, Len(xs) - w))

\* the value returned for a window
SinceCeiling(win) ==
    LET ceiling == MaxOf(win)
        firstIndex == IndexOf(win, ceiling)
    IN  IF firstIndex >= 0 THEN Num(Len(win) - 1 - firstIndex) ELSE Num(0)

IndexSinceCeiling(xs, w) == SinceCeiling(TrailingWindow(xs, w))

\* ------------------------------------------------------------ state
VARIABLES
    pc,                  \* position of the running call
    klines,              \* the Kline[] argument
    prices,              \* the number[] argument (prices / data)
    period,              \* the period argument
    i,                   \* the loop index
    trs, atr, sumTR,     \* calculateATR
    mfi, positiveMoneyFlows, negativeMoneyFlows,  \* calculateMFI
    previousGain, previousLoss, rsi,              \* calculateRSI
    fastPeriod, slowPeriod, signalPeriod,         \* calculateMACD: arguments
    emaFast, emaSlow, signalLine,                 \* calculateMACD: locals
    macd, signal, histogram,                      \* calculateMACD: result
    value, min, max, normalized, result,          \* normalize / unnormalize
    parameters,          \* calculateIndicators: the parameters argument
    ind,                 \* calculateIndicators: its locals, the fields of the object it returns
    invoked,             \* calculateIndicators: the indicator functions called so far, in order
    features,            \* the rows returned by normalizeIndicators
    prev, ema,           \* calculateEMA: locals
    series, windowSize,  \* indexSinceCeiling: arguments
    window, sinceCeiling \* indexSinceCeiling: the trailing window and the returned value

inVars == <<klines, prices, period>>
atrVars == <<trs, atr, sumTR>>
mfiVars == <<mfi, positiveMoneyFlows, negativeMoneyFlows>>
rsiVars == <<previousGain, previousLoss, rsi>>
macdVars == <<fastPeriod, slowPeriod, signalPeriod, emaFast, emaSlow, signalLine,
              macd, signal, histogram>>
normVars == <<value, min, max, normalized, result>>
indVars == <<parameters, ind, invoked, features>>
emaVars == <<prev, ema>>
ceilingVars == <<series, windowSize, window, sinceCeiling>>
vars == <<pc, inVars, i, atrVars, mfiVars, rsiVars, macdVars, normVars, indVars,
          emaVars, ceilingVars>>

\* ------------------------------------------------------------ inputs
Ticks == 1..MaxTick
\* well-formed candles: low <= open, close <= high and volume >= 0
Candles ==
    {c \in [open : Ticks, high : Ticks, low : Ticks, close : Ticks, volume : 0..MaxVolume] :
        c.low <= c.open /\ c.open <= c.high /\ c.low <= c.close /\ c.close <= c.high}
SeqsUpTo(S, n) == UNION {[1..m -> S] : m \in 0..n}
KlineSeqs == SeqsUpTo(Candles, MaxKlines)
Periods == 1..MaxPeriod
\* number series: integer prices 1..MaxPrice
PriceSeqs == SeqsUpTo({Num(n) : n \in 1..MaxPrice}, MaxLen)
\* window sizes: none, shorter than, as long as and longer than the series
WindowSizes == 0..(MaxLen + 1)
\* number series over the ticks of a candle (the closes of a batch)
TickSeqs == SeqsUpTo({Num(n) : n \in Ticks}, MaxLen)
\* arguments of normalize / unnormalize: the halves between -MaxValue and MaxValue
Numbers == {Norm(n, 2) : n \in (-2 * MaxValue)..(2 * MaxValue)}
\* configurations of calculateIndicators: every lookback set to the same period
ParamPeriods == 1..MaxParam
UniformParameters ==
    {[ultraSlowEmaPeriod |-> p, superSlowEmaPeriod |-> p, slowEmaPeriod |-> p,
      fastEmaPeriod |-> p, slowRsiPeriod |-> p, fastRsiPeriod |-> p,
      mfiPeriod |-> p, atrPeriod |-> p] : p \in ParamPeriods}
\* configurations of calculateIndicators: every lookback chosen on its own
AllParameters ==
    [ultraSlowEmaPeriod : ParamPeriods, superSlowEmaPeriod : ParamPeriods,
     slowEmaPeriod : ParamPeriods, fastEmaPeriod : ParamPeriods,
     slowRsiPeriod : ParamPeriods, fastRsiPeriod : ParamPeriods,
     mfiPeriod : ParamPeriods, atrPeriod : ParamPeriods]
\* batches of one repeated candle whose prices all equal one tick
FlatCandle(t) == [open |-> t, high |-> t, low |-> t, close |-> t, volume |-> 1]
FlatBatches == {[j \in 1..n |-> FlatCandle(t)] : n \in 0..MaxKlines, t \in Ticks}

Init ==
    /\ pc = "idle"
    /\ klines = <<>> /\ prices = <<>> /\ period = 0 /\ i = 0
    /\ trs = <<>> /\ atr = <<>> /\ sumTR = Num(0)
    /\ mfi = <<>> /\ positiveMoneyFlows = <<>> /\ negativeMoneyFlows = <<>>
    /\ previousGain = Num(0) /\ previousLoss = Num(0) /\ rsi = <<>>
    /\ fastPeriod = 0 /\ slowPeriod = 0 /\ signalPeriod = 0
    /\ emaFast = <<>> /\ emaSlow = <<>> /\ signalLine = <<>>
    /\ macd = <<>> /\ signal = <<>> /\ histogram = <<>>
    /\ value = Null /\ min = Null /\ max = Null /\ normalized = Null /\ result = Null
    /\ parameters = <<>> /\ ind = IndEmpty /\ invoked = <<>> /\ features = <<>>
    /\ prev = Null /\ ema = <<>>
    /\ series = <<>> /\ windowSize = 0 /\ window = <<>> /\ sinceCeiling = Null

\* ------------------------------------------------------------ calculateATR, step by step
\* entry and first loop (lines 9-23)
ATRCall ==
    /\ pc = "idle"
    /\ \E ks \in KlineSeqs, p \in Periods :
          /\ klines' = ks /\ period' = p
          /\ trs' = TrueRanges(ks)
    /\ atr' = <<>> /\ sumTR' = Num(0) /\ i' = 0
    /\ pc' = "atr_loop"
    /\ UNCHANGED <<prices, mfiVars, rsiVars, macdVars, normVars, indVars, emaVars, ceilingVars>>

\* one iteration of the second loop (lines 24-38)
ATRStep ==
    /\ pc = "atr_loop" /\ i < Len(klines)
    /\ LET st == ATRBody([sumTR |-> sumTR, atr |-> atr], trs, period, i)
       IN  sumTR' = st.sumTR /\ atr' = st.atr
    /\ i' = i + 1
    /\ UNCHANGED <<pc, inVars, trs, mfiVars, rsiVars, macdVars, normVars, indVars, emaVars, ceilingVars>>

\* return atr (line 40)
ATRReturn ==
    /\ pc = "atr_loop" /\ i >= Len(klines)
    /\ pc' = "atr_done"
    /\ UNCHANGED <<inVars, i, atrVars, mfiVars, rsiVars, macdVars, normVars, indVars, emaVars, ceilingVars>>

NextATR == ATRCall \/ ATRStep \/ ATRReturn
SpecATR == Init /\ [][NextATR]_vars

\* ------------------------------------------------------------ calculateMFI, step by step
\* the early return (lines 136-138)
MFICallShort ==
    /\ pc = "idle"
    /\ \E ks \in KlineSeqs, p \in Periods :
          /\ MFITooShort(ks, p)
          /\ klines' = ks /\ period' = p
          /\ mfi' = NullArray(Len(ks))
    /\ pc' = "mfi_done"
    /\ UNCHANGED <<prices, i, atrVars, positiveMoneyFlows, negativeMoneyFlows,
                   rsiVars, macdVars, normVars, indVars, emaVars, ceilingVars>>

\* entry (lines 140-144)
MFICall ==
    /\ pc = "idle"
    /\ \E ks \in KlineSeqs, p \in Periods :
          /\ ~MFITooShort(ks, p)
          /\ klines' = ks /\ period' = p
          /\ mfi' = NullArray(Len(ks))
    /\ positiveMoneyFlows' = <<>> /\ negativeMoneyFlows' = <<>>
    /\ i' = 1
    /\ pc' = "mfi_loop"
    /\ UNCHANGED <<prices, atrVars, rsiVars, macdVars, normVars, indVars, emaVars, ceilingVars>>

\* one iteration of the loop (lines 144-188)
MFIStep ==
    /\ pc = "mfi_loop" /\ i < Len(klines)
    /\ LET st == MFIBody([mfi |-> mfi, positiveMoneyFlows |-> positiveMoneyFlows,
                          negativeMoneyFlows |-> negativeMoneyFlows], klines, period, i)
       IN  /\ mfi' = st.mfi
           /\ positiveMoneyFlows' = st.positiveMoneyFlows
           /\ negativeMoneyFlows' = st.negativeMoneyFlows
    /\ i' = i + 1
    /\ UNCHANGED <<pc, inVars, atrVars, rsiVars, macdVars, normVars, indVars, emaVars, ceilingVars>>

\* return mfi (line 190)
MFIReturn ==
    /\ pc = "mfi_loop" /\ i >= Len(klines)
    /\ pc' = "mfi_done"
    /\ UNCHANGED <<inVars, i, atrVars, mfiVars, rsiVars, macdVars, normVars, indVars, emaVars, ceilingVars>>

NextMFI == MFICallShort \/ MFICall \/ MFIStep \/ MFIReturn
SpecMFI == Init /\ [][NextMFI]_vars

\* ------------------------------------------------------------ calculateRSI, step by step
\* the guard throws (lines 59-61)
RSICallThrow ==
    /\ pc = "idle"
    /\ \E ps \in PriceSeqs, p \in Periods :
          /\ RSIThrows(ps, p)
          /\ prices' = ps /\ period' = p
    /\ pc' = "rsi_threw"
    /\ UNCHANGED <<klines, i, atrVars, mfiVars, rsiVars, macdVars, normVars, indVars, emaVars, ceilingVars>>

\* entry, first loop and initial RSI (lines 59-84)
RSICall ==
    /\ pc = "idle"
    /\ \E ps \in PriceSeqs, p \in Periods :
          /\ ~RSIThrows(ps, p)
          /\ prices' = ps /\ period' = p
          /\ LET st == RSIStart(ps, p)
             IN  /\ previousGain' = st.previousGain
                 /\ previousLoss' = st.previousLoss
                 /\ rsi' = st.rsi
          /\ i' = p + 1
    /\ pc' = "rsi_loop"
    /\ UNCHANGED <<klines, atrVars, mfiVars, macdVars, normVars, indVars, emaVars, ceilingVars>>

\* one iteration of the second loop (lines 84-98)
RSIStep ==
    /\ pc = "rsi_loop" /\ i < Len(prices)
    /\ LET st == RSIBody([previousGain |-> previousGain, previousLoss |-> previousLoss,
                          rsi |-> rsi], prices, period, i)
       IN  /\ previousGain' = st.previousGain
           /\ previousLoss' = st.previousLoss
           /\ rsi' = st.rsi
    /\ i' = i + 1
    /\ UNCHANGED <<pc, inVars, atrVars, mfiVars, macdVars, normVars, indVars, emaVars, ceilingVars>>

\* return rsi (line 100)
RSIReturn ==
    /\ pc = "rsi_loop" /\ i >= Len(prices)
    /\ pc' = "rsi_done"
    /\ UNCHANGED <<inVars, i, atrVars, mfiVars, rsiVars, macdVars, normVars, indVars, emaVars, ceilingVars>>

NextRSI == RSICallThrow \/ RSICall \/ RSIStep \/ RSIReturn
SpecRSI == Init /\ [][NextRSI]_vars

\* ------------------------------------------------------------ calculateMACD, loop by loop
\* entry and the two EMAs (lines 103-113)
MACDCall ==
    /\ pc = "idle"
    /\ \E ps \in TickSeqs, f \in Periods, sl \in Periods, sg \in Periods :
          /\ prices' = ps
          /\ fastPeriod' = f /\ slowPeriod' = sl /\ signalPeriod' = sg
          /\ emaFast' = CalculateEMA(ps, f)
          /\ emaSlow' = CalculateEMA(ps, sl)
    /\ macd' = <<>> /\ signal' = <<>> /\ histogram' = <<>> /\ signalLine' = <<>>
    /\ pc' = "macd_line"
    /\ UNCHANGED <<klines, period, i, atrVars, mfiVars, rsiVars, normVars, indVars, emaVars, ceilingVars>>

\* the first loop (lines 115-123)
MACDLineLoop ==
    /\ pc = "macd_line"
    /\ macd' = MACDLine(emaFast, emaSlow, Len(prices))
    /\ pc' = "macd_signal"
    /\ UNCHANGED <<inVars, i, atrVars, mfiVars, rsiVars, normVars,
                   fastPeriod, slowPeriod, signalPeriod, emaFast, emaSlow, signalLine,
                   signal, histogram, indVars, emaVars, ceilingVars>>

\* the signal line (lines 125-126)
MACDSignalLine ==
    /\ pc = "macd_signal"
    /\ signalLine' = CalculateEMA(MACDCleaned(macd), signalPeriod)
    /\ pc' = "macd_hist"
    /\ UNCHANGED <<inVars, i, atrVars, mfiVars, rsiVars, normVars,
                   fastPeriod, slowPeriod, signalPeriod, emaFast, emaSlow,
                   macd, signal, histogram, indVars, emaVars, ceilingVars>>

\* the second loop and the return (lines 128-132)
MACDHistLoop ==
    /\ pc = "macd_hist"
    /\ signal' = MACDSignal(signalLine, Len(prices))
    /\ histogram' = MACDHistogram(macd, MACDSignal(signalLine, Len(prices)), Len(prices))
    /\ pc' = "macd_done"
    /\ UNCHANGED <<inVars, i, atrVars, mfiVars, rsiVars, normVars,
                   fastPeriod, slowPeriod, signalPeriod, emaFast, emaSlow, signalLine,
                   macd, indVars, emaVars, ceilingVars>>

NextMACD == MACDCall \/ MACDLineLoop \/ MACDSignalLine \/ MACDHistLoop
SpecMACD == Init /\ [][NextMACD]_vars

\* ------------------------------------------------------------ normalize / unnormalize
\* normalize(value, min, max)
NormalizeCall ==
    /\ pc = "idle"
    /\ \E v \in Numbers, lo \in Numbers, hi \in Numbers :
          /\ value' = v /\ min' = lo /\ max' = hi
          /\ normalized' = Null
          /\ result' = Normalize(v, lo, hi)
    /\ pc' = "normalize_done"
    /\ UNCHANGED <<inVars, i, atrVars, mfiVars, rsiVars, macdVars, indVars, emaVars, ceilingVars>>

\* unnormalize(normalized, min, max) of the value just normalized
UnnormalizeResult ==
    /\ pc = "normalize_done"
    /\ normalized' = result
    /\ result' = Unnormalize(result, min, max)
    /\ pc' = "roundtrip_value"
    /\ UNCHANGED <<inVars, i, atrVars, mfiVars, rsiVars, macdVars, value, min, max, indVars, emaVars, ceilingVars>>

\* unnormalize(normalized, min, max)
UnnormalizeCall ==
    /\ pc = "idle"
    /\ \E n \in Numbers, lo \in Numbers, hi \in Numbers :
          /\ normalized' = n /\ min' = lo /\ max' = hi
          /\ value' = Null
          /\ result' = Unnormalize(n, lo, hi)
    /\ pc' = "unnormalize_done"
    /\ UNCHANGED <<inVars, i, atrVars, mfiVars, rsiVars, macdVars, indVars, emaVars, ceilingVars>>

\* normalize(value, min, max) of the value just unnormalized
NormalizeResult ==
    /\ pc = "unnormalize_done"
    /\ value' = result
    /\ result' = Normalize(result, min, max)
    /\ pc' = "roundtrip_normalized"
    /\ UNCHANGED <<inVars, i, atrVars, mfiVars, rsiVars, macdVars, normalized, min, max, indVars, emaVars, ceilingVars>>

NextNormalize == NormalizeCall \/ UnnormalizeResult \/ UnnormalizeCall \/ NormalizeResult
SpecNormalize == Init /\ [][NextNormalize]_vars

\* ------------------------------------------------------------ calculateIndicators, line by line
others == <<prices, period, i, atrVars, mfiVars, rsiVars, macdVars, normVars,
            emaVars, ceilingVars>>

\* entry: the parameters are destructured (lines 207-231)
IndCallWith(batches, configs) ==
    /\ pc = "idle"
    /\ \E ks \in batches, pm \in configs : klines' = ks /\ parameters' = pm
    /\ ind' = IndEmpty /\ invoked' = <<>> /\ features' = <<>>
    /\ pc' = "ind_guard"
    /\ UNCHANGED others

\* any batch of well-formed candles, under a uniform configuration
IndCall == IndCallWith(KlineSeqs, UniformParameters)
\* a flat batch, under any configuration
IndCallConfig == IndCallWith(FlatBatches, AllParameters)

\* the guard throws (lines 233-235)
IndThrow ==
    /\ pc = "ind_guard" /\ IndicatorsThrows(klines, parameters)
    /\ pc' = "ind_threw"
    /\ UNCHANGED <<klines, others, indVars>>

\* the guard passes; closePrices and volumes (lines 233-238)
IndExtract ==
    /\ pc = "ind_guard" /\ ~IndicatorsThrows(klines, parameters)
    /\ ind' = [ind EXCEPT !.closePrices = ClosePrices(klines), !.volumes = Volumes(klines)]
    /\ pc' = "ind_ema"
    /\ UNCHANGED <<klines, others, parameters, invoked, features>>

\* the four EMAs (lines 240-243)
IndEMA ==
    /\ pc = "ind_ema"
    /\ ind' = [ind EXCEPT
                 !.ultraSlowEma = CalculateEMA(ind.closePrices, parameters.ultraSlowEmaPeriod),
                 !.superSlowEma = CalculateEMA(ind.closePrices, parameters.superSlowEmaPeriod),
                 !.slowEma = CalculateEMA(ind.closePrices, parameters.slowEmaPeriod),
                 !.fastEma = CalculateEMA(ind.closePrices, parameters.fastEmaPeriod)]
    /\ invoked' = invoked \o <<"calculateEMA", "calculateEMA", "calculateEMA", "calculateEMA">>
    /\ pc' = "ind_slow_rsi"
    /\ UNCHANGED <<klines, others, parameters, features>>

\* slowRsi (line 244); the error of calculateRSI propagates
IndSlowRSI ==
    /\ pc = "ind_slow_rsi"
    /\ invoked' = Append(invoked, "calculateRSI")
    /\ IF RSIThrows(ind.closePrices, parameters.slowRsiPeriod)
       THEN pc' = "ind_rsi_threw" /\ UNCHANGED ind
       ELSE /\ ind' = [ind EXCEPT !.slowRsi = CalculateRSI(ind.closePrices, parameters.slowRsiPeriod)]
            /\ pc' = "ind_fast_rsi"
    /\ UNCHANGED <<klines, others, parameters, features>>

\* fastRsi (line 245); the error of calculateRSI propagates
IndFastRSI ==
    /\ pc = "ind_fast_rsi"
    /\ invoked' = Append(invoked, "calculateRSI")
    /\ IF RSIThrows(ind.closePrices, parameters.fastRsiPeriod)
       THEN pc' = "ind_rsi_threw" /\ UNCHANGED ind
       ELSE /\ ind' = [ind EXCEPT !.fastRsi = CalculateRSI(ind.closePrices, parameters.fastRsiPeriod)]
            /\ pc' = "ind_macd"
    /\ UNCHANGED <<klines, others, parameters, features>>

\* macd, signal, histogram with the default periods (line 246)
IndMACD ==
    /\ pc = "ind_macd"
    /\ LET m == CalculateMACD(ind.closePrices, DefaultFastPeriod, DefaultSlowPeriod,
                              DefaultSignalPeriod)
       IN  ind' = [ind EXCEPT !.macd = m.macd, !.signal = m.signal, !.histogram = m.histogram]
    /\ invoked' = Append(invoked, "calculateMACD")
    /\ pc' = "ind_mfi"
    /\ UNCHANGED <<klines, others, parameters, features>>

\* mfi (line 247)
IndMFI ==
    /\ pc = "ind_mfi"
    /\ ind' = [ind EXCEPT !.mfi = CalculateMFI(klines, parameters.mfiPeriod)]
    /\ invoked' = Append(invoked, "calculateMFI")
    /\ pc' = "ind_atr"
    /\ UNCHANGED <<klines, others, parameters, features>>

\* atr (line 248)
IndATR ==
    /\ pc = "ind_atr"
    /\ ind' = [ind EXCEPT !.atr = CalculateATR(klines, parameters.atrPeriod)]
    /\ invoked' = Append(invoked, "calculateATR")
    /\ pc' = "ind_bounds"
    /\ UNCHANGED <<klines, others, parameters, features>>

\* the bounds and the return (lines 250-292)
IndReturn ==
    /\ pc = "ind_bounds"
    /\ ind' = WithBounds(ind, klines)
    /\ pc' = "ind_done"
    /\ UNCHANGED <<klines, others, parameters, invoked, features>>

\* normalizeIndicators(indicators) (lines 295-364)
NormalizeIndicatorsCall ==
    /\ pc = "ind_done"
    /\ features' = NormalizeIndicators(ind, klines)
    /\ pc' = "features_done"
    /\ UNCHANGED <<klines, others, parameters, ind, invoked>>

IndSteps ==
    \/ IndThrow \/ IndExtract \/ IndEMA \/ IndSlowRSI \/ IndFastRSI
    \/ IndMACD \/ IndMFI \/ IndATR \/ IndReturn \/ NormalizeIndicatorsCall

NextIndicators == IndCall \/ IndSteps
SpecIndicators == Init /\ [][NextIndicators]_vars

NextIndicatorsConfig == IndCallConfig \/ IndSteps
SpecIndicatorsConfig == Init /\ [][NextIndicatorsConfig]_vars

\* ------------------------------------------------------------ calculateEMA, step by step
\* entry: ema = [], k, prev = data[0] (lines 43-46)
EMACall ==
    /\ pc = "idle"
    /\ \E data \in PriceSeqs, p \in Periods :
          /\ prices' = data /\ period' = p
          /\ prev' = At(data, 0)
    /\ ema' = <<>>
    /\ i' = 0
    /\ pc' = "ema_loop"
    /\ UNCHANGED <<klines, atrVars, mfiVars, rsiVars, macdVars, normVars, indVars, ceilingVars>>

\* one iteration of the loop (lines 47-54)
EMAStep ==
    /\ pc = "ema_loop" /\ i < Len(prices)
    /\ LET st == EMABody([prev |-> prev, ema |-> ema], prices, period, i)
       IN  /\ prev' = st.prev
           /\ ema' = st.ema
    /\ i' = i + 1
    /\ UNCHANGED <<pc, inVars, atrVars, mfiVars, rsiVars, macdVars, normVars, indVars,
                   ceilingVars>>

\* return ema (line 55)
EMAReturn ==
    /\ pc = "ema_loop" /\ i >= Len(prices)
    /\ pc' = "ema_done"
    /\ UNCHANGED <<inVars, i, atrVars, mfiVars, rsiVars, macdVars, normVars, indVars,
                   emaVars, ceilingVars>>

NextEMA == EMACall \/ EMAStep \/ EMAReturn
SpecEMA == Init /\ [][NextEMA]_vars

\* ------------------------------------------------------------ indexSinceCeiling
\* entry: start and window (lines 173-175)
CeilingCall ==
    /\ pc = "idle"
    /\ \E xs \in PriceSeqs, w \in WindowSizes :
          /\ series' = xs /\ windowSize' = w
          /\ window' = TrailingWindow(xs, w)
    /\ pc' = "ceiling_window"
    /\ UNCHANGED <<inVars, i, atrVars, mfiVars, rsiVars, macdVars, normVars, indVars,
                   emaVars, sinceCeiling>>

\* ceiling, firstIndex and the returned value (lines 176-178)
CeilingReturn ==
    /\ pc = "ceiling_window"
    /\ sinceCeiling' = SinceCeiling(window)
    /\ pc' = "ceiling_done"
    /\ UNCHANGED <<inVars, i, atrVars, mfiVars, rsiVars, macdVars, normVars, indVars,
                   emaVars, series, windowSize, window>>

NextCeiling == CeilingCall \/ CeilingReturn
SpecCeiling == Init /\ [][NextCeiling]_vars

\* ------------------------------------------------------------ the whole module
\* any exported function may be called
Next ==
    \/ NextATR \/ NextMFI \/ NextRSI \/ NextMACD \/ NextNormalize
    \/ NextIndicators \/ IndCallConfig \/ NextEMA \/ NextCeiling
Spec == Init /\ [][Next]_vars

\* ------------------------------------------------------------ claims

\* C1: in calculateMFI, after every processed index the positive and the
\* negative money-flow queue each hold at most `period` entries.
C1_QueuesBounded ==
    pc \in {"mfi_loop", "mfi_done"} =>
        /\ Len(positiveMoneyFlows) <= period
        /\ Len(negativeMoneyFlows) <= period

\* C2: for a candle sequence longer than `period`, calculateATR returns the
\* sentinel (NaN) at every index < period, a number at every index >= period,
\* and atr[period] is the simple mean of tr[0..period]: their sum divided by
\* the number of true ranges summed (period + 1).
C2_ATRShape ==
    (pc = "atr_done" /\ Len(klines) > period) =>
        /\ Len(atr) = Len(klines)
        /\ \A j \in 0..(Len(klines) - 1) :
              IF j < period THEN IsNaN(At(atr, j)) ELSE IsFinite(At(atr, j))
        /\ At(atr, period) = FDiv(SumOf(SubSeq(trs, 1, period + 1)), Num(period + 1))

\* every high, low and close of the batch is the same value
ConstantPrice(ks) ==
    \A j \in 1..Len(ks) :
        /\ ks[j].high = ks[1].high /\ ks[j].low = ks[1].high /\ ks[j].close = ks[1].high

\* C3: for a constant-price candle series (every high, low and close the same
\* value) longer than the period, calculateATR yields 0 at every index >= period
\* and calculateRSI yields exactly 100 at every output position.
C3_ConstantSeries ==
    (pc = "ind_done" /\ ConstantPrice(klines)) =>
        /\ \A j \in 0..(Len(klines) - 1) :
              j >= parameters.atrPeriod => At(ind.atr, j) = Num(0)
        /\ \A j \in 1..Len(ind.slowRsi) : ind.slowRsi[j] = Num(100)
        /\ \A j \in 1..Len(ind.fastRsi) : ind.fastRsi[j] = Num(100)

\* each price is larger than the one before
StrictlyIncreasing(ps) == \A j \in 1..(Len(ps) - 1) : FLt(ps[j], ps[j + 1])

\* C4: for a strictly increasing price series of length >= period + 1,
\* calculateRSI does not throw, the average loss is 0 after the initial average
\* and after every Wilder step, and every value it outputs is exactly 100.
C4_IncreasingRSI ==
    (StrictlyIncreasing(prices) /\ Len(prices) >= period + 1) =>
        /\ pc # "rsi_threw"
        /\ pc \in {"rsi_loop", "rsi_done"} =>
              /\ previousLoss = Num(0)
              /\ \A j \in 1..Len(rsi) : rsi[j] = Num(100)
        /\ pc = "rsi_done" => Len(rsi) = Len(prices) - period
C4_Witness ==
    /\ pc = "rsi_done" /\ StrictlyIncreasing(prices)
    /\ Len(prices) >= period + 2 /\ Len(rsi) >= 2

\* the largest of the configured lookback periods
LargestPeriod(pm) ==
    LET all == {pm[f] : f \in DOMAIN pm}
    IN  CHOOSE m \in all : \A x \in all : x <= m

\* C5: calculateIndicators throws whenever the candle count is <= the largest
\* configured period, before any indicator function is invoked and with no
\* partial result; and when the batch check passes, no nested calculateRSI throws.
C5_FailFast ==
    /\ (pc # "idle" /\ Len(klines) <= LargestPeriod(parameters)) =>
          /\ pc \in {"ind_guard", "ind_threw"}
          /\ IndicatorsThrows(klines, parameters)
    /\ pc = "ind_threw" => (invoked = <<>> /\ ind = IndEmpty /\ features = <<>>)
    /\ pc # "ind_rsi_threw"
C5_Witness ==
    /\ pc = "ind_threw" /\ Len(klines) > 0
    /\ Len(klines) = LargestPeriod(parameters)
    /\ parameters.fastEmaPeriod > parameters.ultraSlowEmaPeriod

\* the indicator series of the object calculateIndicators returns
SeriesNames ==
    {"ultraSlowEma", "superSlowEma", "slowEma", "fastEma", "slowRsi", "fastRsi",
     "macd", "signal", "histogram", "mfi", "atr"}

\* C6: every series returned by a successful calculateIndicators call has as many
\* entries as there are input candles.
C6_SeriesLengths ==
    pc \in {"ind_done", "features_done"} =>
        \A name \in SeriesNames : Len(ind[name]) = Len(klines)

\* the columns of a feature row that hold fastRSI, slowRSI and MFI
OscillatorColumns == {10, 11, 15}

\* C7: for an accepted batch of well-formed candles every entry of every feature
\* row is a number in [-1, 1], and the RSI and MFI entries are in [0, 1].
C7_FeaturesBounded ==
    pc = "features_done" =>
        \A j \in 1..Len(features) : \A k \in 1..Len(features[j]) :
            /\ IsFinite(features[j][k])
            /\ FLe(Num(-1), features[j][k]) /\ FLe(features[j][k], Num(1))
            /\ k \in OscillatorColumns => FLe(Num(0), features[j][k])

\* the series calculateIndicators computes for a batch (lines 237-248)
SeriesOf(ks, pm) ==
    LET cp == ClosePrices(ks)
        m == CalculateMACD(cp, DefaultFastPeriod, DefaultSlowPeriod, DefaultSignalPeriod)
    IN  [ultraSlowEma |-> CalculateEMA(cp, pm.ultraSlowEmaPeriod),
         superSlowEma |-> CalculateEMA(cp, pm.superSlowEmaPeriod),
         slowEma |-> CalculateEMA(cp, pm.slowEmaPeriod),
         fastEma |-> CalculateEMA(cp, pm.fastEmaPeriod),
         slowRsi |-> CalculateRSI(cp, pm.slowRsiPeriod),
         fastRsi |-> CalculateRSI(cp, pm.fastRsiPeriod),
         macd |-> m.macd, signal |-> m.signal, histogram |-> m.histogram,
         mfi |-> CalculateMFI(ks, pm.mfiPeriod),
         atr |-> CalculateATR(ks, pm.atrPeriod)]

\* C8: the value of every returned series at index j depends only on the candles
\* 0..j: a batch that differs from this one in its last candle only has the same
\* values at every earlier index.
C8_Causal ==
    pc = "ind_done" =>
        \A c \in Candles :
            LET other == SeriesOf([klines EXCEPT ![Len(klines)] = c], parameters)
            IN  \A name \in SeriesNames : \A j \in 0..(Len(klines) - 2) :
                    At(ind[name], j) = At(other[name], j)

\* C9: calculateMACD returns macd, signal and histogram of the length of the
\* input, none holding null, with macd[i] = EMA_fast[i] - EMA_slow[i] and
\* histogram[i] = macd[i] - signal[i] at every index.
C9_MACDShape ==
    pc = "macd_done" =>
        /\ Len(macd) = Len(prices) /\ Len(signal) = Len(prices)
        /\ Len(histogram) = Len(prices)
        /\ LET fast == CalculateEMA(prices, fastPeriod)
               slow == CalculateEMA(prices, slowPeriod)
           IN  \A j \in 1..Len(prices) :
                  /\ ~IsNull(macd[j]) /\ ~IsNull(signal[j]) /\ ~IsNull(histogram[j])
                  /\ macd[j] = FSub(fast[j], slow[j])
                  /\ FAdd(histogram[j], signal[j]) = macd[j]
C9_Witness ==
    /\ pc = "macd_done" /\ Len(prices) = MaxLen
    /\ fastPeriod < slowPeriod
    /\ \E j \in 1..Len(prices) : ~IsZero(macd[j]) /\ ~IsZero(histogram[j])

\* C10: on a range with min < max, unnormalize(normalize(x, min, max), min, max)
\* is x and normalize(unnormalize(n, min, max), min, max) is n.
C10_RoundTrip ==
    /\ (pc = "roundtrip_value" /\ FLt(min, max)) => result = value
    /\ (pc = "roundtrip_normalized" /\ FLt(min, max)) => result = normalized
C10_Witness ==
    /\ pc = "roundtrip_value" /\ FLt(min, max)
    /\ FLt(max, value) /\ ~IsZero(min)

\* C11: calculateEMA returns one defined entry per input value; the first entry
\* is the first input value and every later entry i is
\* input[i] * k + output[i - 1] * (1 - k) with k = 2 / (period + 1).  During
\* the loop the same holds of the i entries written so far.
C11_EMARecurrence ==
    pc \in {"ema_loop", "ema_done"} =>
        LET k == Norm(2, period + 1)
        IN  /\ Len(ema) = i
            /\ pc = "ema_done" => Len(ema) = Len(prices)
            /\ \A j \in 1..Len(ema) : ~IsNull(ema[j])
            /\ Len(ema) > 0 => ema[1] = prices[1]
            /\ \A j \in 2..Len(ema) :
                  ema[j] = FAdd(FMul(prices[j], k), FMul(ema[j - 1], FSub(Num(1), k)))

\* a returned series whose second entry lies strictly between the first two inputs
C11_Witness ==
    /\ pc = "ema_done" /\ Len(prices) >= 3 /\ period >= 2
    /\ FLt(prices[1], prices[2])
    /\ FLt(ema[1], ema[2]) /\ FLt(ema[2], prices[2])

\* C12: indexSinceCeiling returns the number of steps since the maximum of the
\* trailing window occurred: the point that many steps before the last one is
\* the maximum, and the value is 0 whenever the most recent point of the window
\* equals the maximum, also when the maximum occurs earlier in the window too.
C12_StepsSinceCeiling ==
    (pc = "ceiling_done" /\ window # <<>>) =>
        /\ sinceCeiling[1] \in 0..(Len(window) - 1)
        /\ window[Len(window) - sinceCeiling[1]] = MaxOf(window)
        /\ window[Len(window)] = MaxOf(window) => sinceCeiling = Num(0)

\* C13: every iteration of the second loop of calculateRSI, whatever the price
\* change delta (positive, negative or zero), follows the Wilder recurrence
\* gain' = (gain * (period - 1) + max(delta, 0)) / period and
\* loss' = (loss * (period - 1) + |min(delta, 0)|) / period; on delta = 0 both
\* averages decay by the factor (period - 1) / period.
C13_WilderRecurrence ==
    [][(pc = "rsi_loop" /\ i < Len(prices) /\ i' = i + 1) =>
          LET delta == FSub(At(prices, i), At(prices, i - 1))
              up == FMax(delta, Num(0))
              down == FAbs(FMin(delta, Num(0)))
          IN  /\ previousGain' =
                    FDiv(FAdd(FMul(previousGain, Num(period - 1)), up), Num(period))
              /\ previousLoss' =
                    FDiv(FAdd(FMul(previousLoss, Num(period - 1)), down), Num(period))
       ]_vars


====
